---- MODULE Spec2Model ----
(***************************************************************************)
(* Availability & Reservation Engine of filmtherapy_chat_bot:              *)
(* CalendarService (src/src/services/calendar_service.py) over the         *)
(* BookingRepository and ScheduleRepository of                             *)
(* src/src/services/repositories.py.                                       *)
(*                                                                         *)
(* Time is counted in whole seconds from 00:00 UTC of day 0.  A stored     *)
(* date string is a record [tag, t]: tag "iso" is an ISO-8601 string with  *)
(* the Z suffix for the instant t, "none" a missing field, "empty" the     *)
(* empty string and "bad" a non-empty string that is no ISO date.          *)
(* A booking id "b-<sec>-<user>" is the pair <<sec, user>>; ids that the   *)
(* service never generates are pairs with a negative first component.      *)
(* The booking fields name, phone, price, slot_id and created_at are       *)
(* carried by the code from the call to the record unread; they are left   *)
(* out of the records here.                                                *)
(***************************************************************************)
EXTENDS Integers, Sequences, FiniteSets, TLC

VARIABLES
    store,      \* the "bookings" collection: document id -> document
    schedule,   \* the "schedule" collection: document id -> document
    now,        \* the wall clock (datetime.now / datetime.utcnow), seconds
    ticks,      \* how often the clock has advanced
    calls,      \* how many service calls have completed
    ret,        \* the last completed call: operation, arguments, outcome
    slots,      \* the list returned by the last list_available_slots
    pc,         \* per worker: position inside an interleaved call
    loc,        \* per worker: the locals of its call
    flow,       \* the BookingFlow object: _schedule_cache, _schedule_cache_time
    edited      \* the clock when the "schedule" collection was last written

vars == <<store, schedule, now, ticks, calls, ret, slots, pc, loc, flow, edited>>

-----------------------------------------------------------------------------
(* Units and bounds *)

Minute == 60
Hour == 60 * Minute
Day == 24 * Hour

MaxCalls == 3       \* service calls per behaviour
MaxTicks == 2       \* clock advances per behaviour
MaxSlotIdx == 1     \* requested slots start at SlotBase + k * SlotStep, k <= MaxSlotIdx

Users == {1, 2}
Workers == {1, 2}
TickSteps == {1, Day}
StartOfClock == 10 * Hour
SlotBase == Day + 10 * Hour
SlotStep == 30 * Minute
SlotLens == {30 * Minute, 60 * Minute}

-----------------------------------------------------------------------------
(* Strings that hold dates *)

NoneStr == [tag |-> "none", t |-> 0]
EmptyStr == [tag |-> "empty", t |-> 0]
BadStr == [tag |-> "bad", t |-> 0]

\* create_reservation's iso lambda and the repositories' _iso on a datetime
iso(dt) == [tag |-> "iso", t |-> dt]

\* isinstance(v, str)
IsStr(v) == v.tag # "none"

\* datetime.fromisoformat(s.replace("Z", "+00:00")) returns a value
CanParse(s) == s.tag = "iso"

\* the value datetime.fromisoformat returns when it returns one
fromisoformat(s) == s.t

\* Firestore's order on string fields: "" first, the ISO dates of one format
\* by instant, then strings that start with a letter
StrRank(s) == CASE s.tag = "empty" -> 0 [] s.tag = "iso" -> 1 [] OTHER -> 2

StrLess(a, b) ==
    \/ StrRank(a) < StrRank(b)
    \/ a.tag = "iso" /\ b.tag = "iso" /\ a.t < b.t

Max2(a, b) == IF a >= b THEN a ELSE b
Min2(a, b) == IF a <= b THEN a ELSE b

-----------------------------------------------------------------------------
(* CalendarService.overlaps *)

\* variant: intervals that only touch count as overlapping
overlaps_touching(a_start, a_end, b_start, b_end) ==
    Max2(a_start, b_start) <= Min2(a_end, b_end)

overlaps(a_start, a_end, b_start, b_end) ==
    Max2(a_start, b_start) < Min2(a_end, b_end)

-----------------------------------------------------------------------------
(* BookingRepository *)

NoId == <<-1, 0>>
MissingId == <<-2, 0>>

NoBooking ==
    [id |-> NoId, user_id |-> 0, start |-> NoneStr, end |-> NoneStr,
     location |-> "", session_type |-> "", status |-> ""]

\* order_by("start"), ties by document id
DocBefore(col, i, j) ==
    \/ StrLess(col[i].start, col[j].start)
    \/ /\ col[i].start = col[j].start
       /\ \/ i[1] < j[1]
          \/ i[1] = j[1] /\ i[2] < j[2]

\* .limit(n) of an ordered query
FirstN(col, ids, n) ==
    {i \in ids : Cardinality({j \in ids : DocBefore(col, j, i)}) < n}

RangeLimitMin == 50
RangeLimitMax == 500
RangePerDay == 10
DayLimit == 50

\* get_range_sync: documents whose start string lies in [iso(start), iso(end))
get_range_sync(col, start, end) ==
    LET start_s == iso(start)
        end_s == iso(end)
        days_diff == (end - start) \div Day
        limit == Min2(Max2(days_diff * RangePerDay, RangeLimitMin), RangeLimitMax)
        hit == {i \in DOMAIN col :
                    /\ IsStr(col[i].start)
                    /\ ~StrLess(col[i].start, start_s)
                    /\ StrLess(col[i].start, end_s)}
    IN  FirstN(col, hit, limit)

set_sync(col, booking) ==
    [i \in DOMAIN col \cup {booking.id} |->
        IF i = booking.id THEN booking ELSE col[i]]

patch_status(col, id, status) ==
    [i \in DOMAIN col |-> IF i = id THEN [col[i] EXCEPT !.status = status] ELSE col[i]]

delete_sync(col, id) ==
    [i \in DOMAIN col \ {id} |-> col[i]]

\* get_by_id_sync: the document, or None (NoBooking) when it does not exist
get_by_id_sync(col, id) == IF id \in DOMAIN col THEN col[id] ELSE NoBooking

-----------------------------------------------------------------------------
(* CalendarService: the reservation lifecycle.  Each operation is a function
   of the collection, its arguments and the clock, giving the outcome (ok or
   the exception raised), the collection afterwards and the value returned. *)

Result(outcome, col, rec) ==
    [outcome |-> outcome, col |-> col, rec |-> rec]

\* the dict {"id": booking_id, "status": status, ...} of cancel and admin delete
receipt(id, status) == [NoBooking EXCEPT !.id = id, !.status = status]

\* lines 264-278: some document of the conflict query overlaps the slot
create_check(col, slot) ==
    \E i \in get_range_sync(col, slot.start, slot.end) :
        LET bs == col[i].start
            be == col[i].end
        IN  /\ IsStr(bs) /\ IsStr(be)
            /\ CanParse(bs) /\ CanParse(be)
            /\ overlaps(slot.start, slot.end, fromisoformat(bs), fromisoformat(be))

\* lines 279-294: the booking dict
new_booking(user_id, slot, t) ==
    [id |-> <<t, user_id>>, user_id |-> user_id,
     start |-> iso(slot.start), end |-> iso(slot.end),
     location |-> slot.location, session_type |-> slot.session_type,
     status |-> "pending_payment"]

\* variant: the write repeats the conflict check in the same step as the insert
create_write_checked(col, user_id, slot, t) ==
    IF create_check(col, slot)
    THEN Result("ValidationError", col, NoBooking)
    ELSE Result("ok", set_sync(col, new_booking(user_id, slot, t)),
                new_booking(user_id, slot, t))

\* lines 279-297: assemble the booking and persist it
create_write(col, user_id, slot, t) ==
    Result("ok", set_sync(col, new_booking(user_id, slot, t)),
           new_booking(user_id, slot, t))

create_reservation(col, user_id, slot, t) ==
    IF create_check(col, slot)
    THEN Result("ValidationError", col, NoBooking)
    ELSE create_write(col, user_id, slot, t)

\* patch_sync raises NotFoundError for a missing document, so the
\* "if not updated: raise KeyError" of confirm_payment is never reached
confirm_payment(col, id) ==
    IF id \notin DOMAIN col
    THEN Result("NotFoundError", col, NoBooking)
    ELSE Result("ok", patch_status(col, id, "confirmed"),
                [col[id] EXCEPT !.status = "confirmed"])

CancelLead == 24 * Hour

\* variant: a lead of exactly 24 hours is refused
cancel_booking_strict(col, id, t) ==
    LET b == get_by_id_sync(col, id)
        s_s == b.start
    IN  IF id \notin DOMAIN col THEN Result("KeyError", col, NoBooking)
        ELSE IF ~IsStr(s_s) \/ s_s.tag = "empty" THEN Result("KeyError", col, NoBooking)
        ELSE IF ~CanParse(s_s) THEN Result("ValueError", col, NoBooking)
        ELSE IF fromisoformat(s_s) - t <= CancelLead
             THEN Result("PermissionError", col, NoBooking)
        ELSE Result("ok", delete_sync(col, id), receipt(id, "canceled"))

\* variant: the document is deleted before the lead is compared
cancel_booking_delete_first(col, id, t) ==
    LET b == get_by_id_sync(col, id)
        s_s == b.start
    IN  IF id \notin DOMAIN col THEN Result("KeyError", col, NoBooking)
        ELSE IF ~IsStr(s_s) \/ s_s.tag = "empty" THEN Result("KeyError", col, NoBooking)
        ELSE IF ~CanParse(s_s) THEN Result("ValueError", col, NoBooking)
        ELSE IF fromisoformat(s_s) - t < CancelLead
             THEN Result("PermissionError", delete_sync(col, id), NoBooking)
        ELSE Result("ok", delete_sync(col, id), receipt(id, "canceled"))

\* lines 312-328; fromisoformat raises ValueError on a non-empty string that
\* is no ISO date, and nothing catches it
cancel_booking(col, id, t) ==
    LET b == get_by_id_sync(col, id)
        s_s == b.start
    IN  IF id \notin DOMAIN col THEN Result("KeyError", col, NoBooking)
        ELSE IF ~IsStr(s_s) \/ s_s.tag = "empty" THEN Result("KeyError", col, NoBooking)
        ELSE IF ~CanParse(s_s) THEN Result("ValueError", col, NoBooking)
        ELSE IF fromisoformat(s_s) - t < CancelLead
             THEN Result("PermissionError", col, NoBooking)
        ELSE Result("ok", delete_sync(col, id), receipt(id, "canceled"))

\* variant: the admin delete applies the 24-hour rule of cancel_booking
admin_delete_booking_lead(col, id, t) ==
    IF id \notin DOMAIN col THEN Result("KeyError", col, NoBooking)
    ELSE IF CanParse(col[id].start) /\ fromisoformat(col[id].start) - t < CancelLead
         THEN Result("PermissionError", col, NoBooking)
    ELSE Result("ok", delete_sync(col, id), receipt(id, "deleted"))

\* lines 330-338
admin_delete_booking(col, id, t) ==
    IF id \notin DOMAIN col THEN Result("KeyError", col, NoBooking)
    ELSE Result("ok", delete_sync(col, id), receipt(id, "deleted"))

-----------------------------------------------------------------------------
(* Labels.  A label stands for a free-text value of a rule or a request; the
   code only asks which keywords its lower-cased text contains.
   "Online" stands for "Онлайн"/"online", "Ochno" for "Очно", "Sand" for
   "Песочная терапия", "LocA" and "LocB" for names of physical locations. *)

NoneLabel == "None"     \* Python None

\* the keywords k of the normalizers with "k in s" for s = label.strip().lower()
KeywordsIn(label) ==
    CASE label = "any" -> {"any"}
      [] label = "Online" -> {"online"}
      [] label = "rest" -> {"rest"}
      [] label = "Sand" -> {"sand"}
      [] label = "Ochno" -> {"offline_syn"}
      [] OTHER -> {}

WildcardKeys == {"any", "both"}

normalize_session_type(val) ==
    LET s == IF val = NoneLabel THEN "" ELSE val
    IN  IF s = "" THEN "offline"
        ELSE IF KeywordsIn(s) \cap WildcardKeys # {} THEN "any"
        ELSE IF "online" \in KeywordsIn(s) THEN "online"
        ELSE IF "rest" \in KeywordsIn(s) THEN "rest"
        ELSE IF "sand" \in KeywordsIn(s) THEN "sand"
        ELSE "offline"

normalize_location_rule(val) ==
    LET raw == IF val = NoneLabel THEN "" ELSE val
    IN  IF raw = "" THEN "any"
        ELSE IF KeywordsIn(raw) \cap WildcardKeys # {} THEN "any"
        ELSE IF "online" \in KeywordsIn(raw) THEN "online"
        ELSE raw

-----------------------------------------------------------------------------
(* Schedule rules.  A time-of-day string "HH:MM" is the pair <<h, m>> of the
   integers it holds, <<-1, 0>> a string int() rejects.  A duration or
   interval value is [tag, v]: "int" an integer v, "none" a missing or None
   field, "bad" a value int() rejects. *)

NoneT == <<-1, -1>>     \* parse_hhmm returning None

parse_hhmm(val) ==
    IF val[1] >= 0 /\ val[1] <= 23 /\ val[2] >= 0 /\ val[2] <= 59 THEN val ELSE NoneT

IntV(v) == [tag |-> "int", v |-> v]
NoneV == [tag |-> "none", v |-> 0]
BadV == [tag |-> "bad", v |-> 0]

DefaultDuration == 50

NoMatch == [ok |-> FALSE, window_start |-> 0, window_end |-> 0,
            duration_min |-> 0, interval_min |-> 0, r_loc_norm |-> ""]

\* the instant of h:m UTC on day `date`
AtTime(date, hm) == date * Day + hm[1] * Hour + hm[2] * Minute

\* variant: a rule located online is not kept from offline requests
match_rule_online_loc_open(date, rule, sel_loc, norm_in) ==
    LET r_loc_norm == normalize_location_rule(rule.location)
        is_online_session == norm_in = "online"
        r_sess == IF rule.session_type = NoneLabel THEN "" ELSE rule.session_type
        norm_rule_raw == normalize_session_type(r_sess)
        norm_rule == IF norm_rule_raw \in {"sand", "offline"} THEN "offline" ELSE norm_rule_raw
        p_start0 == parse_hhmm(rule.start)
        p_end0 == parse_hhmm(rule.end)
        both_none == p_start0 = NoneT /\ p_end0 = NoneT
        p_start == IF both_none THEN <<0, 0>> ELSE p_start0
        p_end == IF both_none THEN <<23, 59>> ELSE p_end0
        bad_int == rule.duration.tag = "bad" \/ rule.interval.tag = "bad"
        dur0 == IF rule.duration.tag = "int" /\ rule.duration.v # 0
                THEN rule.duration.v ELSE DefaultDuration
        int0 == IF rule.interval.tag = "int" /\ rule.interval.v # 0
                THEN rule.interval.v ELSE dur0
        duration_min == IF bad_int THEN DefaultDuration ELSE dur0
        interval_min == IF bad_int THEN DefaultDuration ELSE int0
        window_start == AtTime(date, p_start)
        window_end == AtTime(date, p_end)
    IN  IF rule.date < 0 \/ rule.date # date THEN NoMatch
        ELSE IF /\ r_loc_norm \notin {"online", "any"}
                /\ ~is_online_session /\ sel_loc # "" /\ sel_loc # r_loc_norm THEN NoMatch
        ELSE IF r_sess # "" /\ norm_rule_raw = "rest" THEN NoMatch
        ELSE IF r_sess # "" /\ norm_rule = "online" /\ norm_in # "online" THEN NoMatch
        ELSE IF r_sess # "" /\ norm_rule = "offline" /\ norm_in = "online" THEN NoMatch
        ELSE IF p_start = NoneT \/ p_end = NoneT THEN NoMatch
        ELSE IF window_start >= window_end THEN NoMatch
        ELSE [ok |-> TRUE, window_start |-> window_start, window_end |-> window_end,
              duration_min |-> duration_min, interval_min |-> interval_min,
              r_loc_norm |-> r_loc_norm]

\* variant: a rule of a specific location is given to every selected location
match_rule_any_location(date, rule, sel_loc, norm_in) ==
    LET r_loc_norm == normalize_location_rule(rule.location)
        is_online_session == norm_in = "online"
        r_sess == IF rule.session_type = NoneLabel THEN "" ELSE rule.session_type
        norm_rule_raw == normalize_session_type(r_sess)
        norm_rule == IF norm_rule_raw \in {"sand", "offline"} THEN "offline" ELSE norm_rule_raw
        p_start0 == parse_hhmm(rule.start)
        p_end0 == parse_hhmm(rule.end)
        both_none == p_start0 = NoneT /\ p_end0 = NoneT
        p_start == IF both_none THEN <<0, 0>> ELSE p_start0
        p_end == IF both_none THEN <<23, 59>> ELSE p_end0
        bad_int == rule.duration.tag = "bad" \/ rule.interval.tag = "bad"
        dur0 == IF rule.duration.tag = "int" /\ rule.duration.v # 0
                THEN rule.duration.v ELSE DefaultDuration
        int0 == IF rule.interval.tag = "int" /\ rule.interval.v # 0
                THEN rule.interval.v ELSE dur0
        duration_min == IF bad_int THEN DefaultDuration ELSE dur0
        interval_min == IF bad_int THEN DefaultDuration ELSE int0
        window_start == AtTime(date, p_start)
        window_end == AtTime(date, p_end)
    IN  IF rule.date < 0 \/ rule.date # date THEN NoMatch
        ELSE IF r_loc_norm = "online" /\ ~is_online_session THEN NoMatch
        ELSE IF r_sess # "" /\ norm_rule_raw = "rest" THEN NoMatch
        ELSE IF r_sess # "" /\ norm_rule = "online" /\ norm_in # "online" THEN NoMatch
        ELSE IF r_sess # "" /\ norm_rule = "offline" /\ norm_in = "online" THEN NoMatch
        ELSE IF p_start = NoneT \/ p_end = NoneT THEN NoMatch
        ELSE IF window_start >= window_end THEN NoMatch
        ELSE [ok |-> TRUE, window_start |-> window_start, window_end |-> window_end,
              duration_min |-> duration_min, interval_min |-> interval_min,
              r_loc_norm |-> r_loc_norm]

\* variant: a rule of type rest is not rejected
match_rule_rest_open(date, rule, sel_loc, norm_in) ==
    LET r_loc_norm == normalize_location_rule(rule.location)
        is_online_session == norm_in = "online"
        r_sess == IF rule.session_type = NoneLabel THEN "" ELSE rule.session_type
        norm_rule_raw == normalize_session_type(r_sess)
        norm_rule == IF norm_rule_raw \in {"sand", "offline"} THEN "offline" ELSE norm_rule_raw
        p_start0 == parse_hhmm(rule.start)
        p_end0 == parse_hhmm(rule.end)
        both_none == p_start0 = NoneT /\ p_end0 = NoneT
        p_start == IF both_none THEN <<0, 0>> ELSE p_start0
        p_end == IF both_none THEN <<23, 59>> ELSE p_end0
        bad_int == rule.duration.tag = "bad" \/ rule.interval.tag = "bad"
        dur0 == IF rule.duration.tag = "int" /\ rule.duration.v # 0
                THEN rule.duration.v ELSE DefaultDuration
        int0 == IF rule.interval.tag = "int" /\ rule.interval.v # 0
                THEN rule.interval.v ELSE dur0
        duration_min == IF bad_int THEN DefaultDuration ELSE dur0
        interval_min == IF bad_int THEN DefaultDuration ELSE int0
        window_start == AtTime(date, p_start)
        window_end == AtTime(date, p_end)
    IN  IF rule.date < 0 \/ rule.date # date THEN NoMatch
        ELSE IF r_loc_norm = "online" /\ ~is_online_session THEN NoMatch
        ELSE IF /\ r_loc_norm \notin {"online", "any"}
                /\ ~is_online_session /\ sel_loc # "" /\ sel_loc # r_loc_norm THEN NoMatch
        ELSE IF r_sess # "" /\ norm_rule = "online" /\ norm_in # "online" THEN NoMatch
        ELSE IF r_sess # "" /\ norm_rule = "offline" /\ norm_in = "online" THEN NoMatch
        ELSE IF p_start = NoneT \/ p_end = NoneT THEN NoMatch
        ELSE IF window_start >= window_end THEN NoMatch
        ELSE [ok |-> TRUE, window_start |-> window_start, window_end |-> window_end,
              duration_min |-> duration_min, interval_min |-> interval_min,
              r_loc_norm |-> r_loc_norm]

\* variant: the window is the full day as soon as one of the times is unreadable
match_rule_either_time_default(date, rule, sel_loc, norm_in) ==
    LET r_loc_norm == normalize_location_rule(rule.location)
        is_online_session == norm_in = "online"
        r_sess == IF rule.session_type = NoneLabel THEN "" ELSE rule.session_type
        norm_rule_raw == normalize_session_type(r_sess)
        norm_rule == IF norm_rule_raw \in {"sand", "offline"} THEN "offline" ELSE norm_rule_raw
        p_start0 == parse_hhmm(rule.start)
        p_end0 == parse_hhmm(rule.end)
        both_none == p_start0 = NoneT \/ p_end0 = NoneT
        p_start == IF both_none THEN <<0, 0>> ELSE p_start0
        p_end == IF both_none THEN <<23, 59>> ELSE p_end0
        bad_int == rule.duration.tag = "bad" \/ rule.interval.tag = "bad"
        dur0 == IF rule.duration.tag = "int" /\ rule.duration.v # 0
                THEN rule.duration.v ELSE DefaultDuration
        int0 == IF rule.interval.tag = "int" /\ rule.interval.v # 0
                THEN rule.interval.v ELSE dur0
        duration_min == IF bad_int THEN DefaultDuration ELSE dur0
        interval_min == IF bad_int THEN DefaultDuration ELSE int0
        window_start == AtTime(date, p_start)
        window_end == AtTime(date, p_end)
    IN  IF rule.date < 0 \/ rule.date # date THEN NoMatch
        ELSE IF r_loc_norm = "online" /\ ~is_online_session THEN NoMatch
        ELSE IF /\ r_loc_norm \notin {"online", "any"}
                /\ ~is_online_session /\ sel_loc # "" /\ sel_loc # r_loc_norm THEN NoMatch
        ELSE IF r_sess # "" /\ norm_rule_raw = "rest" THEN NoMatch
        ELSE IF r_sess # "" /\ norm_rule = "online" /\ norm_in # "online" THEN NoMatch
        ELSE IF r_sess # "" /\ norm_rule = "offline" /\ norm_in = "online" THEN NoMatch
        ELSE IF p_start = NoneT \/ p_end = NoneT THEN NoMatch
        ELSE IF window_start >= window_end THEN NoMatch
        ELSE [ok |-> TRUE, window_start |-> window_start, window_end |-> window_end,
              duration_min |-> duration_min, interval_min |-> interval_min,
              r_loc_norm |-> r_loc_norm]

\* _match_rule; `date` is the day the request's datetime lies on, and a
\* rule's date string names day rule.date (-1: a string that names no day)
match_rule(date, rule, sel_loc, norm_in) ==
    LET r_loc_norm == normalize_location_rule(rule.location)
        is_online_session == norm_in = "online"
        r_sess == IF rule.session_type = NoneLabel THEN "" ELSE rule.session_type
        norm_rule_raw == normalize_session_type(r_sess)
        norm_rule == IF norm_rule_raw \in {"sand", "offline"} THEN "offline" ELSE norm_rule_raw
        p_start0 == parse_hhmm(rule.start)
        p_end0 == parse_hhmm(rule.end)
        both_none == p_start0 = NoneT /\ p_end0 = NoneT
        p_start == IF both_none THEN <<0, 0>> ELSE p_start0
        p_end == IF both_none THEN <<23, 59>> ELSE p_end0
        bad_int == rule.duration.tag = "bad" \/ rule.interval.tag = "bad"
        dur0 == IF rule.duration.tag = "int" /\ rule.duration.v # 0
                THEN rule.duration.v ELSE DefaultDuration
        int0 == IF rule.interval.tag = "int" /\ rule.interval.v # 0
                THEN rule.interval.v ELSE dur0
        duration_min == IF bad_int THEN DefaultDuration ELSE dur0
        interval_min == IF bad_int THEN DefaultDuration ELSE int0
        window_start == AtTime(date, p_start)
        window_end == AtTime(date, p_end)
    IN  IF rule.date < 0 \/ rule.date # date THEN NoMatch
        ELSE IF r_loc_norm = "online" /\ ~is_online_session THEN NoMatch
        ELSE IF /\ r_loc_norm \notin {"online", "any"}
                /\ ~is_online_session /\ sel_loc # "" /\ sel_loc # r_loc_norm THEN NoMatch
        ELSE IF r_sess # "" /\ norm_rule_raw = "rest" THEN NoMatch
        ELSE IF r_sess # "" /\ norm_rule = "online" /\ norm_in # "online" THEN NoMatch
        ELSE IF r_sess # "" /\ norm_rule = "offline" /\ norm_in = "online" THEN NoMatch
        ELSE IF p_start = NoneT \/ p_end = NoneT THEN NoMatch
        ELSE IF window_start >= window_end THEN NoMatch
        ELSE [ok |-> TRUE, window_start |-> window_start, window_end |-> window_end,
              duration_min |-> duration_min, interval_min |-> interval_min,
              r_loc_norm |-> r_loc_norm]

\* get_for_date_sync: documents whose start string lies on UTC day `date`
get_for_date_sync(col, date) ==
    LET start_s == iso(date * Day)
        end_s == iso(date * Day + Day)
        hit == {i \in DOMAIN col :
                    /\ IsStr(col[i].start)
                    /\ ~StrLess(col[i].start, start_s)
                    /\ StrLess(col[i].start, end_s)}
    IN  FirstN(col, hit, DayLimit)

\* _day_busy_intervals: the (start, end) pairs of the day's readable documents
day_busy_intervals(col, date) ==
    {<<fromisoformat(col[i].start), fromisoformat(col[i].end)>> :
        i \in {j \in get_for_date_sync(col, date) :
                  /\ IsStr(col[j].start) /\ IsStr(col[j].end)
                  /\ CanParse(col[j].start) /\ CanParse(col[j].end)}}

\* the loop condition of iter_free_slots never turns false: it holds at the
\* window start and the step does not advance (a zero step repeats the same
\* slot for ever; a negative step walks back, thirty-five million half-hours
\* to year 1, until `cur += step` leaves the datetime range)
iter_diverges(window_start, window_end, duration_min, interval_min) ==
    interval_min <= 0 /\ window_start + duration_min * Minute <= window_end

RECURSIVE iter_from(_, _, _, _, _, _)
iter_from(cur, window_end, dur, step, busy_intervals, now_utc) ==
    IF ~(cur + dur <= window_end) THEN <<>>
    ELSE LET slot_start == cur
             slot_end == slot_start + dur
             free == /\ slot_end > now_utc
                     /\ \A b \in busy_intervals : ~overlaps(slot_start, slot_end, b[1], b[2])
             rest == iter_from(cur + step, window_end, dur, step, busy_intervals, now_utc)
         IN  IF free THEN <<[start |-> slot_start, end |-> slot_end]>> \o rest ELSE rest

\* iter_free_slots: the (start, end) pairs it yields, in order (for a loop
\* that ends)
iter_free_slots(window_start, window_end, duration_min, interval_min, busy_intervals, now_utc) ==
    IF iter_diverges(window_start, window_end, duration_min, interval_min) THEN <<>>
    ELSE iter_from(window_start, window_end, duration_min * Minute,
                   interval_min * Minute, busy_intervals, now_utc)

\* how the generator of iter_free_slots ends: "ok" when the loop condition
\* turns false, "overflow" when `cur += step` raises OverflowError below
\* datetime.min, "diverges" when it never ends
iter_outcome(window_start, window_end, duration_min, interval_min) ==
    IF ~iter_diverges(window_start, window_end, duration_min, interval_min) THEN "ok"
    ELSE IF interval_min < 0 THEN "overflow"
    ELSE "diverges"

\* list.sort(key=lambda s: s.start): stable insertion by start
RECURSIVE insert_by_start(_, _)
insert_by_start(sorted, x) ==
    IF sorted = <<>> THEN <<x>>
    ELSE IF Head(sorted).start <= x.start
         THEN <<Head(sorted)>> \o insert_by_start(Tail(sorted), x)
         ELSE <<x>> \o sorted

RECURSIVE sort_by_start(_)
sort_by_start(seq) ==
    IF seq = <<>> THEN <<>>
    ELSE insert_by_start(sort_by_start(SubSeq(seq, 1, Len(seq) - 1)), seq[Len(seq)])

-----------------------------------------------------------------------------
(* ScheduleRepository.get_sync and CalendarService.list_available_slots *)

\* the keys of the payload _doc_to_rule hands to ScheduleRule.model_validate
PayloadKeys ==
    {"id", "date", "start", "end", "duration", "interval", "location", "session_type"}

\* the fields of models.ScheduleRule that have no default
ScheduleRuleRequired == {"day_of_week", "start", "end"}

\* ScheduleRule.model_validate accepts a payload with these keys and values
model_validate_ok(keys, data) ==
    /\ ScheduleRuleRequired \subseteq keys
    /\ parse_hhmm(data.start) # NoneT
    /\ parse_hhmm(data.end) # NoneT

\* _doc_to_rule returns a rule (not None)
doc_to_rule_ok(data) == model_validate_ok(PayloadKeys, data)

\* sort key (r.date, r.start) of get_sync
RuleBefore(a, b) ==
    \/ a.date < b.date
    \/ a.date = b.date /\ a.start[1] < b.start[1]
    \/ a.date = b.date /\ a.start[1] = b.start[1] /\ a.start[2] < b.start[2]

RECURSIVE sorted_rules(_)
sorted_rules(docs) ==
    IF docs = {} THEN <<>>
    ELSE LET first == CHOOSE d \in docs : \A e \in docs : ~RuleBefore(e, d)
         IN  <<first>> \o sorted_rules(docs \ {first})

\* get_sync returns a list of the rules that validate
get_sync(sched) ==
    [kind |-> "list",
     items |-> sorted_rules({sched[i] : i \in {j \in DOMAIN sched : doc_to_rule_ok(sched[j])}})]

\* lines 203-204: cfg.get("rules", []) if isinstance(cfg, dict) else []
rules_of(cfg) == IF cfg.kind = "dict" THEN cfg.items ELSE <<>>

\* lines 231-234: the location a slot of a matched rule is given
slot_location(is_online_session, r_loc_norm, sel_loc) ==
    IF is_online_session THEN NoneLabel
    ELSE IF r_loc_norm \notin {"any", "online"} THEN r_loc_norm
    ELSE IF sel_loc # "" THEN sel_loc ELSE NoneLabel

\* lines 221-236 for one rule: the slots it appends
slots_of_rule(date, rule, sel_loc, norm_in, session_type, busy_intervals, now_utc) ==
    LET matched == match_rule(date, rule, sel_loc, norm_in)
        free == iter_free_slots(matched.window_start, matched.window_end,
                                matched.duration_min, matched.interval_min,
                                busy_intervals, now_utc)
    IN  IF ~matched.ok THEN <<>>
        ELSE [k \in 1..Len(free) |->
                [start |-> free[k].start, end |-> free[k].end,
                 location |-> slot_location(norm_in = "online", matched.r_loc_norm, sel_loc),
                 session_type |-> session_type]]

RECURSIVE slots_of_rules(_, _, _, _, _, _, _)
slots_of_rules(date, rules, sel_loc, norm_in, session_type, busy_intervals, now_utc) ==
    IF rules = <<>> THEN <<>>
    ELSE slots_of_rule(date, Head(rules), sel_loc, norm_in, session_type,
                       busy_intervals, now_utc)
         \o slots_of_rules(date, Tail(rules), sel_loc, norm_in, session_type,
                           busy_intervals, now_utc)

\* the call does not return: the slot loop of some matched rule never ends
list_diverges(date, rules, sel_loc, norm_in) ==
    \E k \in 1..Len(rules) :
        LET matched == match_rule(date, rules[k], sel_loc, norm_in)
        IN  matched.ok /\ iter_diverges(matched.window_start, matched.window_end,
                                        matched.duration_min, matched.interval_min)

\* lines 204-240 of list_available_slots, for the value cfg that
\* self._schedule_repo.get_sync() returned
slots_of_cfg(cfg, col, date, location, session_type, now_utc) ==
    LET rules == rules_of(cfg)
        norm_in == normalize_session_type(session_type)
        busy_intervals == day_busy_intervals(col, date)
        sel_loc == IF location = NoneLabel THEN "" ELSE location
    IN  sort_by_start(slots_of_rules(date, rules, sel_loc, norm_in, session_type,
                                     busy_intervals, now_utc))

\* list_available_slots: the list it returns
list_available_slots(sched, col, date, location, session_type, now_utc) ==
    slots_of_cfg(get_sync(sched), col, date, location, session_type, now_utc)

\* BookingFlow._has_available_slots_optimized, lines 125-135: the busy
\* intervals of the bookings it is handed
busy_of_bookings(bookings) ==
    {<<fromisoformat(bookings[i].start), fromisoformat(bookings[i].end)>> :
        i \in {j \in DOMAIN bookings :
                  /\ IsStr(bookings[j].start) /\ IsStr(bookings[j].end)
                  /\ CanParse(bookings[j].start) /\ CanParse(bookings[j].end)}}

\* whether the generator of iter_free_slots yields a slot at all, from cur on
RECURSIVE yields_any(_, _, _, _, _, _)
yields_any(cur, window_end, dur, step, busy_intervals, now_utc) ==
    IF ~(cur + dur <= window_end) THEN FALSE
    ELSE IF /\ cur + dur > now_utc
            /\ \A b \in busy_intervals : ~overlaps(cur, cur + dur, b[1], b[2])
         THEN TRUE
    ELSE IF step = 0 \/ (step < 0 /\ cur + dur <= now_utc) THEN FALSE
    ELSE yields_any(cur + step, window_end, dur, step, busy_intervals, now_utc)

\* lines 137-150: "True" at the first slot of the first rule that yields one,
\* "False" when every rule is passed; a matched rule whose loop yields
\* nothing and does not end keeps the call from returning
RECURSIVE has_slots_from(_, _, _, _, _, _)
has_slots_from(date, schedule_rules, sel_loc, norm_in, busy_intervals, now_utc) ==
    IF schedule_rules = <<>> THEN "False"
    ELSE LET matched == match_rule(date, Head(schedule_rules), sel_loc, norm_in)
             rest == has_slots_from(date, Tail(schedule_rules), sel_loc, norm_in,
                                    busy_intervals, now_utc)
         IN  IF ~matched.ok THEN rest
             ELSE IF yields_any(matched.window_start, matched.window_end,
                                matched.duration_min * Minute,
                                matched.interval_min * Minute, busy_intervals, now_utc)
                  THEN "True"
             ELSE IF iter_diverges(matched.window_start, matched.window_end,
                                   matched.duration_min, matched.interval_min)
                  THEN iter_outcome(matched.window_start, matched.window_end,
                                    matched.duration_min, matched.interval_min)
             ELSE rest

\* BookingFlow._has_available_slots_optimized
has_available_slots_optimized(date, location, session_type, schedule_rules, bookings, now_utc) ==
    has_slots_from(date, schedule_rules,
                   IF location = NoneLabel THEN "" ELSE location,
                   normalize_session_type(session_type),
                   busy_of_bookings(bookings), now_utc)

-----------------------------------------------------------------------------
(* Inputs *)

SlotInputs ==
    {[start |-> SlotBase + k * SlotStep, end |-> SlotBase + k * SlotStep + len,
      location |-> "LocA", session_type |-> "Ochno"] :
        k \in 0..MaxSlotIdx, len \in SlotLens}

NoSlot == [start |-> 0, end |-> 0, location |-> "", session_type |-> ""]

IdInputs == DOMAIN store \cup {MissingId}

\* ret: id, user_id, slot are the arguments, b the document the call loaded by
\* id, rec the value returned, at the clock when the call ran
NoCall ==
    [op |-> "", id |-> NoId, user_id |-> 0, slot |-> NoSlot, b |-> NoBooking,
     outcome |-> "", rec |-> NoBooking, at |-> 0]

\* rules the provider has stored
Rule(date, start, end, duration, interval, location, session_type) ==
    [date |-> date, start |-> start, end |-> end, duration |-> duration,
     interval |-> interval, location |-> location, session_type |-> session_type]

RuleDocs ==
    {Rule(1, <<10, 0>>, <<12, 0>>, IntV(60), IntV(60), "LocA", "Ochno"),
     Rule(1, <<10, 0>>, <<11, 0>>, IntV(30), IntV(30), "Online", "Online")}

\* _doc_id_from_rule: date|start|location|session_type
doc_id_from_rule(rule) == <<rule.date, rule.start, rule.location, rule.session_type>>

ScheduleOf(docs) ==
    [i \in {doc_id_from_rule(d) : d \in docs} |->
        CHOOSE d \in docs : doc_id_from_rule(d) = i]

ScheduleInputs == {ScheduleOf(docs) : docs \in SUBSET RuleDocs}

ListDates == {1, 2}
ListLocations == {NoneLabel, "LocA", "LocB"}
ListTypes == {"Online", "Ochno"}

Returned(op, id, user_id, slot, r) ==
    [op |-> op, id |-> id, user_id |-> user_id, slot |-> slot,
     b |-> get_by_id_sync(store, id),
     outcome |-> r.outcome, rec |-> r.rec, at |-> now]

EmptyCol == [i \in {} |-> NoBooking]

IdleLoc == [user_id |-> 0, slot |-> NoSlot, outcome |-> "", seen |-> {}, id |-> NoId]

\* BookingFlow.__init__: _schedule_cache = None, _schedule_cache_time = None
NoFlow == [filled |-> FALSE, schedule_cache |-> <<>>, schedule_cache_time |-> 0]

-----------------------------------------------------------------------------
(* Calls that run to completion before the next one starts *)

CallCreate(user_id, slot) ==
    /\ calls < MaxCalls
    /\ LET r == create_reservation(store, user_id, slot, now)
       IN  /\ store' = r.col
           /\ ret' = Returned("create", NoId, user_id, slot, r)
    /\ calls' = calls + 1
    /\ UNCHANGED <<schedule, now, ticks, slots, pc, loc, flow, edited>>

CallConfirm(id) ==
    /\ calls < MaxCalls
    /\ LET r == confirm_payment(store, id)
       IN  /\ store' = r.col
           /\ ret' = Returned("confirm", id, 0, NoSlot, r)
    /\ calls' = calls + 1
    /\ UNCHANGED <<schedule, now, ticks, slots, pc, loc, flow, edited>>

CallCancel(id) ==
    /\ calls < MaxCalls
    /\ LET r == cancel_booking(store, id, now)
       IN  /\ store' = r.col
           /\ ret' = Returned("cancel", id, 0, NoSlot, r)
    /\ calls' = calls + 1
    /\ UNCHANGED <<schedule, now, ticks, slots, pc, loc, flow, edited>>

CallAdminDelete(id) ==
    /\ calls < MaxCalls
    /\ LET r == admin_delete_booking(store, id, now)
       IN  /\ store' = r.col
           /\ ret' = Returned("admin_delete", id, 0, NoSlot, r)
    /\ calls' = calls + 1
    /\ UNCHANGED <<schedule, now, ticks, slots, pc, loc, flow, edited>>

\* the request is kept in ret.slot: the day queried as its start and end
CallList(date, location, session_type) ==
    /\ calls < MaxCalls
    /\ LET rules == rules_of(get_sync(schedule))
           sel_loc == IF location = NoneLabel THEN "" ELSE location
           diverges == list_diverges(date, rules, sel_loc, normalize_session_type(session_type))
           req == [start |-> date * Day, end |-> date * Day + Day,
                   location |-> location, session_type |-> session_type]
       IN  /\ slots' = IF diverges THEN <<>>
                       ELSE list_available_slots(schedule, store, date, location,
                                                 session_type, now)
           /\ ret' = [NoCall EXCEPT !.op = "list", !.slot = req, !.at = now,
                                    !.outcome = IF diverges THEN "diverges" ELSE "ok"]
    /\ calls' = calls + 1
    /\ UNCHANGED <<store, schedule, now, ticks, pc, loc, flow, edited>>

Tick ==
    /\ ticks < MaxTicks
    /\ \E d \in TickSteps : now' = now + d
    /\ ticks' = ticks + 1
    /\ UNCHANGED <<store, schedule, calls, ret, slots, pc, loc, flow, edited>>

Init ==
    /\ store = EmptyCol
    /\ schedule \in ScheduleInputs
    /\ now = StartOfClock
    /\ ticks = 0
    /\ calls = 0
    /\ ret = NoCall
    /\ slots = <<>>
    /\ pc = [w \in Workers |-> "idle"]
    /\ loc = [w \in Workers |-> IdleLoc]
    /\ flow = NoFlow
    /\ edited = StartOfClock

Next ==
    \/ \E u \in Users, s \in SlotInputs : CallCreate(u, s)
    \/ \E id \in IdInputs : CallConfirm(id)
    \/ \E id \in IdInputs : CallCancel(id)
    \/ \E id \in IdInputs : CallAdminDelete(id)
    \/ \E d \in ListDates, l \in ListLocations, st \in ListTypes : CallList(d, l, st)
    \/ Tick

Spec == Init /\ [][Next]_vars

(* The reservation lifecycle alone: no rules stored, no availability query *)

InitLifecycle == Init /\ schedule = EmptyCol

NextLifecycle ==
    \/ \E u \in Users, s \in SlotInputs : CallCreate(u, s)
    \/ \E id \in IdInputs : CallConfirm(id)
    \/ \E id \in IdInputs : CallCancel(id)
    \/ \E id \in IdInputs : CallAdminDelete(id)
    \/ Tick

SpecLifecycle == InitLifecycle /\ [][NextLifecycle]_vars

(* create_reservation calls of two concurrent callers (threads or service
   instances that share the bookings collection), interleaved:
   the conflict read and check (lines 264-278) is one step, the write
   (lines 279-297) another. *)

RaceRead(w, user_id, slot) ==
    /\ pc[w] = "idle"
    /\ IF create_check(store, slot)
       THEN /\ pc' = [pc EXCEPT ![w] = "done"]
            /\ loc' = [loc EXCEPT ![w] = [user_id |-> user_id, slot |-> slot,
                          outcome |-> "ValidationError", seen |-> DOMAIN store, id |-> NoId]]
       ELSE /\ pc' = [pc EXCEPT ![w] = "write"]
            /\ loc' = [loc EXCEPT ![w] = [user_id |-> user_id, slot |-> slot,
                          outcome |-> "", seen |-> DOMAIN store, id |-> NoId]]
    /\ UNCHANGED <<store, schedule, now, ticks, calls, ret, slots, flow, edited>>

RaceWrite(w) ==
    /\ pc[w] = "write"
    /\ LET r == create_write(store, loc[w].user_id, loc[w].slot, now)
       IN  /\ store' = r.col
           /\ loc' = [loc EXCEPT ![w].outcome = r.outcome, ![w].id = r.rec.id]
    /\ pc' = [pc EXCEPT ![w] = "done"]
    /\ UNCHANGED <<schedule, now, ticks, calls, ret, slots, flow, edited>>

NextRace ==
    \/ \E w \in Workers, u \in Users, s \in SlotInputs : RaceRead(w, u, s)
    \/ \E w \in Workers : RaceWrite(w)
    \/ Tick

SpecRace == InitLifecycle /\ [][NextRace]_vars

(* cancel_booking calls of two concurrent callers, interleaved: the read by
   id (lines 314-316), the checks of the start and of the 24-hour rule
   (lines 317-325), the delete (lines 326-327) and the return of the
   receipt (line 328) are one step each.  loc[w].concurrent records that the
   call of w ran while the other caller's call was in progress. *)

\* lines 314-316: the document read, or KeyError
cancel_read(col, id) ==
    IF id \notin DOMAIN col THEN Result("KeyError", col, NoBooking)
    ELSE Result("", col, get_by_id_sync(col, id))

\* lines 317-325: the exception the checks raise on the document read, "" when
\* they pass
cancel_check(b, t) ==
    IF ~IsStr(b.start) \/ b.start.tag = "empty" THEN "KeyError"
    ELSE IF ~CanParse(b.start) THEN "ValueError"
    ELSE IF fromisoformat(b.start) - t < CancelLead THEN "PermissionError"
    ELSE ""

\* variant: a delete that finds no document raises KeyError
cancel_delete_must_exist(col, id) ==
    IF id \notin DOMAIN col THEN Result("KeyError", col, NoBooking)
    ELSE Result("ok", delete_sync(col, id), receipt(id, "canceled"))

\* lines 326-328: delete_sync returns False on a missing document and the
\* caller does not look at what it returns
cancel_delete(col, id) ==
    Result("ok", delete_sync(col, id), receipt(id, "canceled"))

\* the bookings the two callers cancel: both start 25 hours after the first
\* clock value
CancelRaceStore ==
    [i \in {<<0, 1>>, <<0, 2>>} |->
        [NoBooking EXCEPT !.id = i, !.user_id = i[2],
                          !.start = iso(SlotBase + i[2] * Hour),
                          !.end = iso(SlotBase + i[2] * Hour + 50 * Minute),
                          !.status = "confirmed"]]

InitCancelRace ==
    /\ store = CancelRaceStore
    /\ schedule = EmptyCol
    /\ now = StartOfClock
    /\ ticks = 0
    /\ calls = 0
    /\ ret = NoCall
    /\ slots = <<>>
    /\ pc = [w \in Workers |-> "idle"]
    /\ loc = [w \in Workers |-> IdleLoc]
    /\ flow = NoFlow
    /\ edited = StartOfClock

InProgress(w) == pc[w] \in {"check", "delete", "return"}

CancelRead(w, id) ==
    /\ pc[w] = "idle"
    /\ LET r == cancel_read(store, id)
           met == \E v \in Workers \ {w} : InProgress(v)
       IN  /\ pc' = [pc EXCEPT ![w] = IF r.outcome = "" THEN "check" ELSE "done"]
           /\ loc' = [v \in Workers |->
                        IF v = w
                        THEN [id |-> id, b |-> r.rec, outcome |-> r.outcome,
                              rec |-> NoBooking, concurrent |-> met]
                        ELSE IF InProgress(v) THEN [loc[v] EXCEPT !.concurrent = TRUE]
                        ELSE loc[v]]
    /\ UNCHANGED <<store, schedule, now, ticks, calls, ret, slots, flow, edited>>

CancelCheck(w) ==
    /\ pc[w] = "check"
    /\ LET e == cancel_check(loc[w].b, now)
       IN  /\ pc' = [pc EXCEPT ![w] = IF e = "" THEN "delete" ELSE "done"]
           /\ loc' = [loc EXCEPT ![w].outcome = e]
    /\ UNCHANGED <<store, schedule, now, ticks, calls, ret, slots, flow, edited>>

CancelDelete(w) ==
    /\ pc[w] = "delete"
    /\ LET r == cancel_delete(store, loc[w].id)
       IN  /\ store' = r.col
           /\ loc' = [loc EXCEPT ![w].outcome = r.outcome, ![w].rec = r.rec]
    /\ pc' = [pc EXCEPT ![w] = IF loc'[w].outcome = "ok" THEN "return" ELSE "done"]
    /\ UNCHANGED <<schedule, now, ticks, calls, ret, slots, flow, edited>>

CancelReturn(w) ==
    /\ pc[w] = "return"
    /\ pc' = [pc EXCEPT ![w] = "done"]
    /\ UNCHANGED <<store, schedule, now, ticks, calls, ret, slots, loc, flow, edited>>

NextCancelRace ==
    \/ \E w \in Workers, id \in DOMAIN CancelRaceStore : CancelRead(w, id)
    \/ \E w \in Workers : CancelCheck(w)
    \/ \E w \in Workers : CancelDelete(w)
    \/ \E w \in Workers : CancelReturn(w)
    \/ Tick

SpecCancelRace == InitCancelRace /\ [][NextCancelRace]_vars

(* A bookings collection that already holds documents the service did not
   write: a confirmed booking, and documents whose date fields are missing,
   empty or unreadable (the readers of the service skip or reject these). *)

MaxSeeds == 1

Seed(k, start, end) ==
    [id |-> <<-1, k>>, user_id |-> 1, start |-> start, end |-> end,
     location |-> "LocA", session_type |-> "Ochno", status |-> "confirmed"]

SeedDocs ==
    {Seed(1, iso(SlotBase), iso(SlotBase + 60 * Minute)),
     Seed(2, NoneStr, NoneStr),
     Seed(3, EmptyStr, iso(SlotBase)),
     Seed(4, BadStr, iso(SlotBase)),
     Seed(5, iso(SlotBase + 30 * Minute), BadStr)}

SeedStores ==
    {[i \in {d.id : d \in docs} |-> CHOOSE d \in docs : d.id = i] :
        docs \in {T \in SUBSET SeedDocs : Cardinality(T) <= MaxSeeds}}

InitStore ==
    /\ store \in SeedStores
    /\ schedule = EmptyCol
    /\ now = StartOfClock
    /\ ticks = 0
    /\ calls = 0
    /\ ret = NoCall
    /\ slots = <<>>
    /\ pc = [w \in Workers |-> "idle"]
    /\ loc = [w \in Workers |-> IdleLoc]
    /\ flow = NoFlow
    /\ edited = StartOfClock

SpecStore == InitStore /\ [][NextLifecycle]_vars

-----------------------------------------------------------------------------
(* ScheduleRepository.save and save_sync.  An item of the payload is a record
   of the values it carries; `keys` names the fields it has.  A ScheduleRule
   instance has every field of the model (its id and interval were filled in
   when it was built); a dict in the form the rule documents are read in
   (`date`, no `day_of_week`) has the keys of DictKeys. *)

MaxPayload == 2     \* items per save payload

NoRuleId == <<-1, <<0, 0>>, "", "">>

ModelKeys ==
    {"id", "day_of_week", "start", "end", "duration", "interval",
     "location", "session_type", "deleted"}

DictKeys ==
    {"date", "start", "end", "duration", "interval", "location", "session_type"}

\* ScheduleRule._post: interval defaults to duration, id to the composite key
\* day_of_week|start|location|session_type
to_model(it) ==
    [id |-> IF "id" \in it.keys /\ it.id # NoRuleId THEN it.id
            ELSE <<it.day_of_week, it.start, it.location, it.session_type>>,
     day_of_week |-> it.day_of_week, start |-> it.start, end |-> it.end,
     duration |-> it.duration,
     interval |-> IF it.interval.tag # "int" \/ it.interval.v <= 0
                  THEN it.duration ELSE it.interval,
     location |-> it.location, session_type |-> it.session_type,
     deleted |-> "deleted" \in it.keys /\ it.deleted]

\* _normalize_rules: the items model_validate accepts, as models, in order
RECURSIVE normalize_rules(_)
normalize_rules(rules_in) ==
    IF rules_in = <<>> THEN <<>>
    ELSE IF model_validate_ok(Head(rules_in).keys, Head(rules_in))
         THEN <<to_model(Head(rules_in))>> \o normalize_rules(Tail(rules_in))
         ELSE normalize_rules(Tail(rules_in))

\* _doc_id_from_rule on a ScheduleRule: str(rule.id or ...), and _post has
\* made rule.id non-empty
doc_id_from_model(r) == r.id

\* r.model_dump(mode="python", exclude={"id"})
model_dump(r) == [f \in DOMAIN r \ {"id"} |-> r[f]]

\* the dict `unique` after the loop: for each doc id the last rule that has it
unique_rules(new_rules) ==
    [i \in {doc_id_from_model(new_rules[k]) : k \in 1..Len(new_rules)} |->
        LET last == CHOOSE k \in 1..Len(new_rules) :
                        /\ doc_id_from_model(new_rules[k]) = i
                        /\ \A j \in 1..Len(new_rules) :
                              doc_id_from_model(new_rules[j]) = i => j <= k
        IN  new_rules[last]]

\* save: every existing document whose id is not among the new ids is
\* deleted, then every rule of `unique` is written under its id
save(sched, rules_in) ==
    LET unique == unique_rules(normalize_rules(rules_in))
        new_ids == DOMAIN unique
        after_delete == [i \in DOMAIN sched \cap new_ids |-> sched[i]]
    IN  [i \in DOMAIN after_delete \cup new_ids |->
            IF i \in new_ids THEN model_dump(unique[i]) ELSE after_delete[i]]

\* save_sync: the same statements as save
save_sync(sched, rules_in) ==
    LET unique == unique_rules(normalize_rules(rules_in))
        new_ids == DOMAIN unique
        after_delete == [i \in DOMAIN sched \cap new_ids |-> sched[i]]
    IN  [i \in DOMAIN after_delete \cup new_ids |->
            IF i \in new_ids THEN model_dump(unique[i]) ELSE after_delete[i]]

\* a ScheduleRule instance, as ScheduleRule(...) builds it
RuleModel(day_of_week, start, end, duration, location, session_type, deleted) ==
    [keys |-> ModelKeys,
     id |-> <<day_of_week, start, location, session_type>>,
     day_of_week |-> day_of_week, start |-> start, end |-> end,
     duration |-> IntV(duration), interval |-> IntV(duration),
     location |-> location, session_type |-> session_type, deleted |-> deleted]

\* a rule given as a dict with the keys of a rule document
RuleDict(date, start, end, duration, location, session_type) ==
    [keys |-> DictKeys, date |-> date, start |-> start, end |-> end,
     duration |-> IntV(duration), interval |-> NoneV,
     location |-> location, session_type |-> session_type]

SaveItems ==
    {RuleModel(1, <<10, 0>>, <<12, 0>>, 60, "LocA", "Ochno", FALSE),
     RuleModel(1, <<10, 0>>, <<11, 0>>, 30, "LocA", "Ochno", FALSE),
     RuleModel(1, <<10, 0>>, <<12, 0>>, 60, "LocA", "Ochno", TRUE),
     RuleModel(1, <<13, 0>>, <<15, 0>>, 60, "LocA", "Ochno", FALSE),
     RuleDict(1, <<10, 0>>, <<12, 0>>, 60, "LocA", "Ochno")}

SavePayloads ==
    UNION {[1..n -> SaveItems] : n \in 0..MaxPayload}

SaveCall(op, rules_in) ==
    [op |-> op, payload |-> rules_in, at |-> now]

CallSave(rules_in) ==
    /\ calls < MaxCalls
    /\ schedule' = save(schedule, rules_in)
    /\ ret' = SaveCall("save", rules_in)
    /\ calls' = calls + 1
    /\ edited' = now
    /\ UNCHANGED <<store, now, ticks, slots, pc, loc, flow>>

CallSaveSync(rules_in) ==
    /\ calls < MaxCalls
    /\ schedule' = save_sync(schedule, rules_in)
    /\ ret' = SaveCall("save_sync", rules_in)
    /\ calls' = calls + 1
    /\ edited' = now
    /\ UNCHANGED <<store, now, ticks, slots, pc, loc, flow>>

NextSchedule ==
    \/ \E rules_in \in SavePayloads : CallSave(rules_in)
    \/ \E rules_in \in SavePayloads : CallSaveSync(rules_in)

SpecSchedule == InitLifecycle /\ [][NextSchedule]_vars

------------------------------------------------------------------------------
(* BookingFlow: the schedule cache of _get_schedule_rules *)

CacheTTL == 5       \* seconds a filled cache is served without a read

\* line 113: the rules get_sync returned, each dumped without its id
dump_rules(rules_models) ==
    [k \in 1..Len(rules_models) |-> model_dump(rules_models[k])]

\* _get_schedule_rules, lines 105-116: whether it read the rule store, the
\* fields of the object afterwards and the list it returns
get_schedule_rules(fl, sched, t) ==
    IF ~fl.filled \/ t - fl.schedule_cache_time > CacheTTL
    THEN LET rules_models == get_sync(sched).items
         IN  [read |-> TRUE,
              flow |-> [filled |-> TRUE, schedule_cache |-> dump_rules(rules_models),
                        schedule_cache_time |-> t],
              rules |-> dump_rules(rules_models)]
    ELSE [read |-> FALSE, flow |-> fl, rules |-> fl.schedule_cache]

CallGetScheduleRules ==
    /\ calls < MaxCalls
    /\ LET r == get_schedule_rules(flow, schedule, now)
       IN  /\ flow' = r.flow
           /\ ret' = [op |-> "get_schedule_rules", at |-> now, read |-> r.read,
                      rules |-> r.rules]
    /\ calls' = calls + 1
    /\ UNCHANGED <<store, schedule, now, ticks, slots, pc, loc, edited>>

\* the clock moves by a second or by the length of the cache's life
TickTTL ==
    /\ ticks < MaxTicks
    /\ \E d \in {1, CacheTTL} : now' = now + d
    /\ ticks' = ticks + 1
    /\ UNCHANGED <<store, schedule, calls, ret, slots, pc, loc, flow, edited>>

NextCache ==
    \/ \E rules_in \in SavePayloads : CallSave(rules_in)
    \/ CallGetScheduleRules
    \/ TickTTL

SpecCache == InitLifecycle /\ [][NextCache]_vars

-----------------------------------------------------------------------------
(* The helpers of CalendarService applied to arguments of their types:
   overlaps to four instants, _match_rule to a rule dict and a request as
   list_available_slots prepares it (lines 213-224). *)

MaxApply == 1       \* applications per behaviour
MaxInstant == 3     \* instants 0..MaxInstant handed to overlaps

Instants == 0..MaxInstant

MatchRuleInputs ==
    {Rule(1, <<10, 0>>, <<12, 0>>, IntV(60), IntV(60), l, t) :
        l \in {"", "any", "Online", "LocA"},
        t \in {"", "any", "Online", "Ochno", "Sand", "rest"}}

MatchTypes == {"Online", "Ochno", "Sand", "any", "rest"}

\* rules of day 1 for every location and type, with times that parse or not,
\* windows that are empty or inverted, and durations and intervals that are
\* integers (zero and negative included), missing or unreadable
MatchRuleTimeInputs ==
    {Rule(1, st, en, d, i, "any", "") :
        st \in {<<10, 0>>, <<-1, 0>>},
        en \in {<<12, 0>>, <<-1, 0>>, <<10, 0>>, <<9, 0>>},
        d \in {IntV(60), IntV(0), IntV(-60), NoneV, BadV},
        i \in {IntV(30), IntV(0), IntV(-30), NoneV, BadV}}

ApplyOverlaps(a_start, a_end, b_start, b_end) ==
    /\ calls < MaxApply
    /\ ret' = [op |-> "overlaps", a_start |-> a_start, a_end |-> a_end,
               b_start |-> b_start, b_end |-> b_end,
               result |-> overlaps(a_start, a_end, b_start, b_end),
               swapped |-> overlaps(b_start, b_end, a_start, a_end)]
    /\ calls' = calls + 1
    /\ UNCHANGED <<store, schedule, now, ticks, slots, pc, loc, flow, edited>>

ApplyMatchRule(date, rule, location, session_type) ==
    /\ calls < MaxApply
    /\ LET norm_in == normalize_session_type(session_type)
           sel_loc == IF location = NoneLabel THEN "" ELSE location
       IN  ret' = [op |-> "match_rule", date |-> date, rule |-> rule,
                   session_type |-> session_type,
                   sel_loc |-> sel_loc, norm_in |-> norm_in,
                   matched |-> match_rule(date, rule, sel_loc, norm_in)]
    /\ calls' = calls + 1
    /\ UNCHANGED <<store, schedule, now, ticks, slots, pc, loc, flow, edited>>

\* _match_rule on a stored rule, then iter_free_slots on what it hands over
\* (as list_available_slots lines 222-229 chain them), no booking on the day
ApplyIterFreeSlots(date, rule) ==
    /\ calls < MaxApply
    /\ LET matched == match_rule(date, rule, "", "offline")
       IN  /\ matched.ok
           /\ ret' = [op |-> "iter_free_slots", date |-> date, rule |-> rule,
                      matched |-> matched,
                      outcome |-> iter_outcome(matched.window_start, matched.window_end,
                                               matched.duration_min, matched.interval_min),
                      yielded |-> iter_free_slots(matched.window_start, matched.window_end,
                                                  matched.duration_min, matched.interval_min,
                                                  {}, now)]
    /\ calls' = calls + 1
    /\ UNCHANGED <<store, schedule, now, ticks, slots, pc, loc, flow, edited>>

\* the bookings of the day both checks are given
AvailabilityBookings ==
    {EmptyCol,
     [i \in {<<0, 1>>} |->
        [NoBooking EXCEPT !.id = i, !.user_id = 1, !.start = iso(SlotBase),
                          !.end = iso(SlotBase + 60 * Minute),
                          !.status = "pending_payment"]]}

\* _has_available_slots_optimized and list_available_slots for the same
\* date, location, session type, rules, bookings and current time; the rule
\* list is what the schedule repository's get_sync returned
ApplyAvailability(date, rule, location, session_type, bookings) ==
    /\ calls < MaxApply
    /\ ret' = [op |-> "availability", date |-> date, rules |-> <<rule>>,
               location |-> location, session_type |-> session_type,
               bookings |-> bookings,
               has |-> has_available_slots_optimized(date, location, session_type,
                                                     <<rule>>, bookings, now),
               listed |-> slots_of_cfg([kind |-> "list", items |-> <<rule>>], bookings,
                                       date, location, session_type, now)]
    /\ calls' = calls + 1
    /\ UNCHANGED <<store, schedule, now, ticks, slots, pc, loc, flow, edited>>

NextHelpers ==
    \/ \E a_start, a_end, b_start, b_end \in Instants :
          ApplyOverlaps(a_start, a_end, b_start, b_end)
    \/ \E d \in ListDates, r \in MatchRuleInputs, l \in ListLocations, st \in MatchTypes :
          ApplyMatchRule(d, r, l, st)
    \/ \E r \in MatchRuleTimeInputs : ApplyMatchRule(1, r, NoneLabel, "Ochno")
    \/ \E r \in MatchRuleTimeInputs : ApplyIterFreeSlots(1, r)
    \/ \E r \in MatchRuleInputs, st \in MatchTypes, b \in AvailabilityBookings :
          ApplyAvailability(1, r, NoneLabel, st, b)

SpecHelpers == InitLifecycle /\ [][NextHelpers]_vars

-----------------------------------------------------------------------------
(* Properties *)

\* the step completes a call of operation op
CallStep(op) == calls' = calls + 1 /\ ret'.op = op

\* the instants of a stored booking
StartOf(b) == fromisoformat(b.start)
EndOf(b) == fromisoformat(b.end)

\* col with document id removed and nothing else touched
Without(col_before, col_after, id) ==
    /\ DOMAIN col_after = DOMAIN col_before \ {id}
    /\ \A i \in DOMAIN col_after : col_after[i] = col_before[i]

\* C1: after any sequence of calls that each run to completion, starting from
\* an empty store, no two stored bookings have overlapping [start, end).
C1_NoOverlappingBookings ==
    \A i, j \in DOMAIN store :
        i # j => ~(Max2(StartOf(store[i]), StartOf(store[j]))
                     < Min2(EndOf(store[i]), EndOf(store[j])))

\* C2: two create_reservation calls that both read before either writes both
\* pass the conflict check, neither raises ValidationError, and (unless the
\* two bookings get the same id) both bookings are stored, overlapping when
\* the requested slots overlap.
C2_RaceBothPass ==
    \A w, v \in Workers :
        (/\ w # v
         /\ pc[w] = "done" /\ pc[v] = "done"
         /\ loc[w].seen = {} /\ loc[v].seen = {})
        => /\ loc[w].outcome = "ok" /\ loc[v].outcome = "ok"
           /\ loc[w].id # loc[v].id
              => /\ {loc[w].id, loc[v].id} \subseteq DOMAIN store
                 /\ store[loc[w].id].start = iso(loc[w].slot.start)
                 /\ store[loc[w].id].end = iso(loc[w].slot.end)
                 /\ store[loc[v].id].start = iso(loc[v].slot.start)
                 /\ store[loc[v].id].end = iso(loc[v].slot.end)

\* C2 witness: both workers read an empty store, both wrote, and the store
\* holds their two bookings, whose intervals overlap.
C2_DoubleBooked ==
    \E w, v \in Workers :
        /\ w # v
        /\ pc[w] = "done" /\ pc[v] = "done"
        /\ loc[w].seen = {} /\ loc[v].seen = {}
        /\ loc[w].outcome = "ok" /\ loc[v].outcome = "ok"
        /\ loc[w].id # loc[v].id
        /\ {loc[w].id, loc[v].id} \subseteq DOMAIN store
        /\ Max2(StartOf(store[loc[w].id]), StartOf(store[loc[v].id]))
             < Min2(EndOf(store[loc[w].id]), EndOf(store[loc[v].id]))

\* C3: create_reservation raises ValidationError and writes nothing whenever
\* the slot overlaps the interval of any stored booking, wherever that booking
\* starts; otherwise it succeeds, persisting one booking with status
\* pending_payment and the slot's start and end, and touching no other.
C3_CreateRejectsEveryOverlap ==
    [][CallStep("create") =>
        LET slot == ret'.slot
            clash == \E i \in DOMAIN store :
                        Max2(slot.start, StartOf(store[i])) < Min2(slot.end, EndOf(store[i]))
        IN  IF clash
            THEN ret'.outcome = "ValidationError" /\ store' = store
            ELSE /\ ret'.outcome = "ok"
                 /\ ret'.rec.status = "pending_payment"
                 /\ ret'.rec.start = iso(slot.start)
                 /\ ret'.rec.end = iso(slot.end)
                 /\ DOMAIN store' = DOMAIN store \cup {ret'.rec.id}
                 /\ store'[ret'.rec.id] = ret'.rec
                 /\ \A i \in DOMAIN store \ {ret'.rec.id} : store'[i] = store[i]
    ]_vars

\* C5: for a stored rule that matches the request, with window [ws, we),
\* duration d and interval i, list_available_slots returns exactly the slots
\* [ws + k*i, ws + k*i + d), k >= 0, that end by we, end after now and overlap
\* no busy interval of the day (the list holds these slots of every matching
\* rule and no other slot).
C5_ListReturnsRuleSlots ==
    (ret.op = "list" /\ ret.outcome = "ok") =>
        LET date == ret.slot.start \div Day
            sel_loc == IF ret.slot.location = NoneLabel THEN "" ELSE ret.slot.location
            norm_in == normalize_session_type(ret.slot.session_type)
            busy == day_busy_intervals(store, date)
            matches == {m \in {match_rule(date, schedule[i], sel_loc, norm_in) :
                                  i \in DOMAIN schedule} :
                            m.ok /\ m.interval_min > 0 /\ m.duration_min > 0}
            Expected(m) ==
                {sl \in {[start |-> m.window_start + k * m.interval_min * Minute,
                          end |-> m.window_start + k * m.interval_min * Minute
                                    + m.duration_min * Minute] :
                            k \in 0..((m.window_end - m.window_start)
                                        \div (m.interval_min * Minute))} :
                    /\ sl.end <= m.window_end
                    /\ sl.end > ret.at
                    /\ \A b \in busy : ~(Max2(sl.start, b[1]) < Min2(sl.end, b[2]))}
        IN  {[start |-> slots[n].start, end |-> slots[n].end] : n \in 1..Len(slots)}
                = UNION {Expected(m) : m \in matches}

\* C6: cancel_booking on an existing booking that starts less than 24 hours
\* after now raises PermissionError and leaves the store unchanged.
C6_CancelInsideWindowRefused ==
    [][(/\ CallStep("cancel")
        /\ ret'.id \in DOMAIN store
        /\ CanParse(store[ret'.id].start)
        /\ StartOf(store[ret'.id]) - now < 24 * Hour)
       => /\ ret'.outcome = "PermissionError"
          /\ store' = store
    ]_vars

\* C6 witness: a cancel was refused for a booking that is still stored and
\* started less than 24 hours after the call.
C6_Refused ==
    /\ ret.op = "cancel" /\ ret.outcome = "PermissionError"
    /\ ret.id \in DOMAIN store
    /\ store[ret.id] = ret.b
    /\ StartOf(ret.b) - ret.at < 24 * Hour

\* C7: cancel_booking on an existing booking (pending_payment or confirmed)
\* that starts at least 24 hours after now, exactly 24 hours included, removes
\* it, leaves every other booking unchanged and returns a receipt with the
\* booking id and status "canceled".
C7_CancelOutsideWindowRemoves ==
    [][(/\ CallStep("cancel")
        /\ ret'.id \in DOMAIN store
        /\ CanParse(store[ret'.id].start)
        /\ StartOf(store[ret'.id]) - now >= 24 * Hour)
       => /\ ret'.outcome = "ok"
          /\ Without(store, store', ret'.id)
          /\ ret'.rec.id = ret'.id
          /\ ret'.rec.status = "canceled"
    ]_vars

\* C7 witness: a confirmed booking that started exactly 24 hours after the
\* call was canceled and is gone.
C7_CanceledAtExactly24h ==
    /\ ret.op = "cancel" /\ ret.outcome = "ok"
    /\ ret.b.id = ret.id
    /\ ret.b.status = "confirmed"
    /\ StartOf(ret.b) - ret.at = 24 * Hour
    /\ ret.id \notin DOMAIN store

\* C8: confirm_payment on a stored id sets that booking's status to confirmed
\* and returns the updated record; on an id that is not stored it raises
\* KeyError and changes nothing.
C8_ConfirmOrKeyError ==
    [][CallStep("confirm") =>
        IF ret'.id \in DOMAIN store
        THEN /\ ret'.outcome = "ok"
             /\ DOMAIN store' = DOMAIN store
             /\ store'[ret'.id] = [store[ret'.id] EXCEPT !.status = "confirmed"]
             /\ \A i \in DOMAIN store \ {ret'.id} : store'[i] = store[i]
             /\ ret'.rec = store'[ret'.id]
        ELSE ret'.outcome = "KeyError" /\ store' = store
    ]_vars

\* C9: cancel_booking and admin_delete_booking with an id that is not stored,
\* and cancel_booking on a record without a usable start (missing, empty or
\* not a date), raise KeyError and leave the store unchanged.
C9_MissingOrMalformedIsKeyError ==
    [][(\/ /\ (CallStep("cancel") \/ CallStep("admin_delete"))
           /\ ret'.id \notin DOMAIN store
        \/ /\ CallStep("cancel")
           /\ ret'.id \in DOMAIN store
           /\ ~CanParse(store[ret'.id].start))
       => /\ ret'.outcome = "KeyError"
          /\ store' = store
    ]_vars

\* C10: admin_delete_booking on an existing booking removes it whatever the
\* lead time (less than 24 hours away or in the past included), leaves every
\* other booking unchanged and returns a receipt with the booking id and
\* status "deleted".
C10_AdminDeleteAlwaysRemoves ==
    [][(CallStep("admin_delete") /\ ret'.id \in DOMAIN store)
       => /\ ret'.outcome = "ok"
          /\ Without(store, store', ret'.id)
          /\ ret'.rec.id = ret'.id
          /\ ret'.rec.status = "deleted"
    ]_vars

\* C10 witness: a booking whose start was already past was deleted by the
\* admin and is gone, while another booking is still stored.
C10_DeletedPastBooking ==
    /\ ret.op = "admin_delete" /\ ret.outcome = "ok"
    /\ ret.b.id = ret.id
    /\ StartOf(ret.b) < ret.at
    /\ ret.id \notin DOMAIN store
    /\ DOMAIN store # {}

\* C11: a stored booking's status is always pending_payment or confirmed; the
\* only status change is pending_payment to confirmed, made by
\* confirm_payment; and a booking leaves the store only through
\* cancel_booking with a lead of at least 24 hours or admin_delete_booking.
C11_BookingStateMachine ==
    [][/\ \A i \in DOMAIN store' :
            store'[i].status \in {"pending_payment", "confirmed"}
       /\ \A i \in DOMAIN store \cap DOMAIN store' :
            store'[i].status # store[i].status
            => /\ store[i].status = "pending_payment"
               /\ store'[i].status = "confirmed"
               /\ CallStep("confirm") /\ ret'.id = i
       /\ \A i \in DOMAIN store :
            (\/ i \notin DOMAIN store'
             \/ /\ i \in DOMAIN store'
                /\ <<store'[i].start, store'[i].end>> # <<store[i].start, store[i].end>>)
            => \/ /\ CallStep("cancel") /\ ret'.id = i
                  /\ StartOf(store[i]) - now >= 24 * Hour
               \/ CallStep("admin_delete") /\ ret'.id = i
    ]_vars

\* the step completes a save or a save_sync
SaveStep == calls' = calls + 1 /\ ret'.op \in {"save", "save_sync"}

\* the document ids the rules of a payload name
PayloadIds(rules_in) ==
    {doc_id_from_model(to_model(rules_in[k])) :
        k \in {j \in 1..Len(rules_in) :
                  model_validate_ok(rules_in[j].keys, rules_in[j])}}

\* C12: save and save_sync with a payload that omits a stored rule leave
\* that rule in the store, unchanged.
C12_SaveKeepsOmittedRules ==
    [][SaveStep =>
        \A i \in DOMAIN schedule \ PayloadIds(ret'.payload) :
            i \in DOMAIN schedule' /\ schedule'[i] = schedule[i]
    ]_vars

\* C13: save with a rule flagged deleted=True (and no unflagged rule of the
\* same id in the payload) removes the stored rule of that id and does not
\* write the flagged rule: afterwards the store holds no document of that id.
C13_SaveDeletesFlaggedRule ==
    [][SaveStep =>
        LET rules == normalize_rules(ret'.payload)
        IN  \A k \in 1..Len(rules) :
                (/\ rules[k].deleted
                 /\ \A j \in 1..Len(rules) :
                        doc_id_from_model(rules[j]) = doc_id_from_model(rules[k])
                        => rules[j].deleted)
                => doc_id_from_model(rules[k]) \notin DOMAIN schedule'
    ]_vars

\* C14: when a payload holds several rules of one composite id, exactly one
\* document of that id is stored, holding the fields of the last such rule
\* without the id and without the deleted flag.
C14_DuplicateIdLastWins ==
    [][SaveStep =>
        LET rules == normalize_rules(ret'.payload)
        IN  \A k, j \in 1..Len(rules) :
                (/\ j < k
                 /\ doc_id_from_model(rules[j]) = doc_id_from_model(rules[k])
                 /\ \A n \in 1..Len(rules) :
                        doc_id_from_model(rules[n]) = doc_id_from_model(rules[k]) => n <= k
                 /\ ~rules[k].deleted)
                => /\ doc_id_from_model(rules[k]) \in DOMAIN schedule'
                   /\ schedule'[doc_id_from_model(rules[k])]
                        = [f \in DOMAIN rules[k] \ {"id", "deleted"} |-> rules[k][f]]
    ]_vars

\* the slots one rule gives to the request of the last _match_rule
\* application, on a day without bookings
SlotsGiven ==
    slots_of_rule(ret.date, ret.rule, ret.sel_loc, ret.norm_in, ret.session_type, {}, 0)

\* the same rule with the wildcard location
AnyLocation(rule) == [rule EXCEPT !.location = "any"]

\* the rule's times give a window on the day: both are readable and start is
\* before end, or neither is readable (the full day)
TimesFit(rule, date) ==
    LET ps == parse_hhmm(rule.start)
        pe == parse_hhmm(rule.end)
    IN  \/ ps = NoneT /\ pe = NoneT
        \/ ps # NoneT /\ pe # NoneT /\ AtTime(date, ps) < AtTime(date, pe)

\* sand is a kind of offline
Folded(norm) == IF norm = "sand" THEN "offline" ELSE norm

\* C15: a rule whose normalized location is "online" gives slots only to
\* requests whose normalized session type is online: for an offline request,
\* whatever location is selected, it does not match and gives no slot, and
\* the slots it gives to online requests have location None.
C15_OnlineRuleOnlyOnline ==
    (ret.op = "match_rule" /\ normalize_location_rule(ret.rule.location) = "online")
    => /\ ret.norm_in # "online" => ~ret.matched.ok /\ SlotsGiven = <<>>
       /\ \A k \in 1..Len(SlotsGiven) :
             ret.norm_in = "online" /\ SlotsGiven[k].location = NoneLabel

\* C15 witness: a rule located online matched an online request that named a
\* location, and gave it slots without location.
C15_OnlineRuleServedOnline ==
    /\ ret.op = "match_rule"
    /\ normalize_location_rule(ret.rule.location) = "online"
    /\ ret.norm_in = "online" /\ ret.sel_loc # ""
    /\ ret.matched.ok
    /\ SlotsGiven # <<>>
    /\ \A k \in 1..Len(SlotsGiven) : SlotsGiven[k].location = NoneLabel

\* C17: overlaps is true exactly when max(a_start, b_start) < min(a_end,
\* b_end), that is when the half-open intervals share an instant: false when
\* a_end = b_start, true for identical non-empty intervals, and the same with
\* the two intervals swapped.
C17_OverlapsHalfOpen ==
    ret.op = "overlaps"
    => /\ ret.result <=> \E t \in Instants :
                            /\ ret.a_start <= t /\ t < ret.a_end
                            /\ ret.b_start <= t /\ t < ret.b_end
       /\ ret.a_end = ret.b_start => ~ret.result
       /\ (/\ ret.a_start = ret.b_start /\ ret.a_end = ret.b_end
           /\ ret.a_start < ret.a_end) => ret.result
       /\ ret.swapped = ret.result

\* C17 witness: overlaps returned false for two non-empty intervals that
\* touch.
C17_TouchingNotOverlapping ==
    /\ ret.op = "overlaps"
    /\ ret.a_start < ret.a_end /\ ret.b_start < ret.b_end
    /\ ret.a_end = ret.b_start
    /\ ~ret.result

\* C19: a rule whose location is a specific string L applies to an offline
\* request only when the selected location is L or none was passed (and is
\* then not rejected for its location), and it is never rejected for its
\* location on an online request, whatever location was passed.
C19_SpecificLocationRule ==
    (ret.op = "match_rule"
     /\ normalize_location_rule(ret.rule.location) \notin {"online", "any"})
    => LET L == normalize_location_rule(ret.rule.location)
           other_grounds ==
               match_rule(ret.date, AnyLocation(ret.rule), ret.sel_loc, ret.norm_in).ok
       IN  /\ (ret.norm_in # "online" /\ ret.matched.ok)
                => (ret.sel_loc = L \/ ret.sel_loc = "")
           /\ (ret.norm_in # "online" /\ (ret.sel_loc = L \/ ret.sel_loc = ""))
                => (ret.matched.ok <=> other_grounds)
           /\ ret.norm_in = "online" => (ret.matched.ok <=> other_grounds)

\* C19 witness: a rule of location LocA was refused to an offline request for
\* another location, which the same rule with the wildcard location matches.
C19_OtherLocationRefused ==
    /\ ret.op = "match_rule"
    /\ ret.rule.location = "LocA"
    /\ ret.norm_in # "online"
    /\ ret.sel_loc = "LocB"
    /\ ~ret.matched.ok
    /\ match_rule(ret.date, AnyLocation(ret.rule), ret.sel_loc, ret.norm_in).ok

\* C20, as claimed: _match_rule rejects every rule whose normalized session
\* type is rest; a rule of concrete type (online, or offline with sand
\* folded into offline) matches only a request whose normalized type is the
\* same; a rule whose session type is the wildcard or empty matches every
\* request type.
C20_RuleTypeEqualsRequestType ==
    ret.op = "match_rule"
    => LET r_sess == ret.rule.session_type
           norm_rule == normalize_session_type(r_sess)
       IN  /\ (r_sess # "" /\ norm_rule = "rest") => ~ret.matched.ok
           /\ (r_sess # "" /\ Folded(norm_rule) \in {"online", "offline"}
               /\ ret.matched.ok)
                => Folded(ret.norm_in) = Folded(norm_rule)
           /\ (/\ r_sess = "" \/ norm_rule = "any"
               /\ ret.rule.date = ret.date
               /\ normalize_location_rule(ret.rule.location) = "any"
               /\ TimesFit(ret.rule, ret.date))
                => ret.matched.ok

\* C20, amended: _match_rule rejects every rule whose normalized session
\* type is rest; a rule of type online matches only requests normalized
\* online; a rule of type offline (sand included) matches exactly the
\* requests that are not normalized online, whatever else they normalize to;
\* a rule whose session type is the wildcard or empty matches every request
\* type.
C20_RuleTypeOnlineOrNot ==
    ret.op = "match_rule"
    => LET r_sess == ret.rule.session_type
           norm_rule == normalize_session_type(r_sess)
           other_grounds ==
               /\ ret.rule.date = ret.date
               /\ normalize_location_rule(ret.rule.location) = "any"
               /\ TimesFit(ret.rule, ret.date)
       IN  /\ (r_sess # "" /\ norm_rule = "rest") => ~ret.matched.ok
           /\ (r_sess # "" /\ norm_rule = "online" /\ ret.matched.ok)
                => ret.norm_in = "online"
           /\ (r_sess # "" /\ Folded(norm_rule) = "offline" /\ ret.matched.ok)
                => ret.norm_in # "online"
           /\ (r_sess # "" /\ norm_rule = "online" /\ ret.norm_in = "online"
               /\ other_grounds) => ret.matched.ok
           /\ (r_sess # "" /\ Folded(norm_rule) = "offline" /\ ret.norm_in # "online"
               /\ other_grounds) => ret.matched.ok
           /\ ((r_sess = "" \/ norm_rule = "any") /\ other_grounds) => ret.matched.ok

\* C20 witness: a rule of type offline matched a request whose type
\* normalizes to the wildcard.
C20_OfflineRuleMatchedAnyRequest ==
    /\ ret.op = "match_rule"
    /\ normalize_session_type(ret.rule.session_type) = "offline"
    /\ ret.rule.session_type # ""
    /\ ret.norm_in = "any"
    /\ ret.matched.ok

\* the rule of the last _match_rule application is refused for nothing but
\* its times: it is of the requested day, any location and any type
OnlyTimesDecide ==
    /\ ret.op = "match_rule"
    /\ ret.rule.date = ret.date
    /\ normalize_location_rule(ret.rule.location) = "any"
    /\ ret.rule.session_type = ""

FullDay(m, date) ==
    /\ m.window_start = date * Day
    /\ m.window_end = date * Day + 23 * Hour + 59 * Minute

\* C21, as claimed: when a rule's start or end, either one or both, cannot be
\* parsed as HH:MM, _match_rule does not reject the rule for it but gives it
\* the window 00:00-23:59 of the target date; a rule is rejected for its
\* times only when the resulting window has start >= end.
C21_EitherTimeUnreadableFullDay ==
    OnlyTimesDecide
    => LET ps == parse_hhmm(ret.rule.start)
           pe == parse_hhmm(ret.rule.end)
       IN  /\ (ps = NoneT \/ pe = NoneT)
                => ret.matched.ok /\ FullDay(ret.matched, ret.date)
           /\ (ps # NoneT /\ pe # NoneT)
                => (ret.matched.ok <=> AtTime(ret.date, ps) < AtTime(ret.date, pe))

\* C21, amended: when both start and end cannot be parsed, the window is
\* 00:00-23:59 of the target date; when exactly one of them cannot be
\* parsed, the rule is rejected; when both parse, the window is [start, end)
\* and the rule is rejected exactly when start >= end.
C21_BothTimesUnreadableFullDay ==
    OnlyTimesDecide
    => LET ps == parse_hhmm(ret.rule.start)
           pe == parse_hhmm(ret.rule.end)
       IN  /\ (ps = NoneT /\ pe = NoneT)
                => ret.matched.ok /\ FullDay(ret.matched, ret.date)
           /\ ((ps = NoneT) # (pe = NoneT)) => ~ret.matched.ok
           /\ (ps # NoneT /\ pe # NoneT)
                => /\ ret.matched.ok <=> AtTime(ret.date, ps) < AtTime(ret.date, pe)
                   /\ ret.matched.ok
                        => /\ ret.matched.window_start = AtTime(ret.date, ps)
                           /\ ret.matched.window_end = AtTime(ret.date, pe)

\* C21 witness: a rule whose start cannot be parsed and whose end can was
\* rejected, though its day, location and type fit the request.
C21_HalfReadableRuleRejected ==
    /\ OnlyTimesDecide
    /\ parse_hhmm(ret.rule.start) = NoneT
    /\ parse_hhmm(ret.rule.end) # NoneT
    /\ ~ret.matched.ok

\* C22: duration is 50 when the rule's duration does not parse as an integer
\* (or is missing), and interval is the rule's parsed or defaulted duration
\* when the rule's interval is missing or does not parse; an interval that
\* does not parse leaves a duration that parsed unchanged.
C22_DurationIntervalDefaults ==
    (ret.op = "match_rule" /\ ret.matched.ok)
    => LET d == ret.rule.duration
           i == ret.rule.interval
           claimed_duration == IF d.tag = "int" /\ d.v # 0 THEN d.v ELSE DefaultDuration
       IN  /\ ret.matched.duration_min = claimed_duration
           /\ i.tag \in {"none", "bad"} => ret.matched.interval_min = claimed_duration

\* C23: iter_free_slots ends by its loop condition, after finitely many
\* slots, for every window, duration and interval that _match_rule hands to
\* it from a stored rule, a zero or negative duration or interval included.
C23_IterFreeSlotsEnds ==
    ret.op = "iter_free_slots" => ret.outcome = "ok"

\* C24: for the same date, location, session type, rule set, bookings and
\* current time, _has_available_slots_optimized returns True exactly when
\* list_available_slots returns a non-empty list.
C24_ExistenceCheckAgreesWithList ==
    ret.op = "availability" => ((ret.has = "True") <=> (ret.listed # <<>>))

\* both callers have finished a cancel of the same booking, the two calls
\* overlapped in time, and the start of the booking is still at least 24 hours
\* away
DoubleCancelDone ==
    /\ \A w \in Workers : pc[w] = "done" /\ loc[w].concurrent
    /\ \A v, w \in Workers : loc[v].id = loc[w].id
    /\ \A w \in Workers : StartOf(CancelRaceStore[loc[w].id]) - now >= 24 * Hour

OthersUnchanged(id) ==
    \A j \in DOMAIN CancelRaceStore \ {id} :
        j \in DOMAIN store /\ store[j] = CancelRaceStore[j]

\* C26, as claimed: when two cancel_booking calls for the same booking (start
\* at least 24 hours away) interleave in any order of their read, check and
\* delete steps, neither call raises, both return a "canceled" receipt, the
\* booking is absent afterwards and no other booking is changed.
C26_DoubleCancelNeitherRaises ==
    DoubleCancelDone
    => /\ \A w \in Workers : /\ loc[w].outcome = "ok"
                             /\ loc[w].rec = receipt(loc[w].id, "canceled")
       /\ \A w \in Workers : loc[w].id \notin DOMAIN store /\ OthersUnchanged(loc[w].id)

\* C26, amended: in every such interleaving a call raises only when its read
\* comes after the other call's delete, and then it raises KeyError; every
\* call that read the booking returns a "canceled" receipt, at least one call
\* does, the booking is absent afterwards and no other booking is changed.
C26_DoubleCancelLateReadKeyError ==
    DoubleCancelDone
    => /\ \A w \in Workers :
            IF loc[w].b # NoBooking
            THEN /\ loc[w].outcome = "ok"
                 /\ loc[w].rec = receipt(loc[w].id, "canceled")
            ELSE loc[w].outcome = "KeyError"
       /\ \E w \in Workers : loc[w].outcome = "ok"
       /\ \A w \in Workers : loc[w].id \notin DOMAIN store /\ OthersUnchanged(loc[w].id)

\* C26 witness: both callers read the same booking before either deleted it,
\* and both returned a "canceled" receipt.
C26_BothCanceled ==
    /\ DoubleCancelDone
    /\ \A w \in Workers : loc[w].b # NoBooking /\ loc[w].outcome = "ok"
    /\ \A w \in Workers : loc[w].id \notin DOMAIN store

\* the rule documents of the store, seen as the rules a query works on
StoredRules(sched) ==
    {[f \in DictKeys \ {"date"} |-> sched[i][f]] : i \in DOMAIN sched}

ReturnedRules(rules) ==
    {[f \in DictKeys \ {"date"} |-> rules[k][f]] : k \in 1..Len(rules)}

\* C27: _get_schedule_rules returns the cached list without reading the rule
\* store when the cache was filled at most 5 seconds ago and re-reads the
\* store otherwise; hence a query made more than 5 seconds after a rule edit
\* sees the edited rules, and the rules returned are never older than the
\* store's content at the last fill.
C27_CacheServesAtMostFiveSeconds ==
    [][CallStep("get_schedule_rules")
       => /\ ret'.read <=> ~(flow.filled /\ now - flow.schedule_cache_time <= 5)
          /\ ~ret'.read => ret'.rules = flow.schedule_cache /\ flow' = flow
          /\ ret'.read => flow'.schedule_cache_time = now
          /\ ret'.rules = flow'.schedule_cache
          /\ now - edited > 5 => ReturnedRules(ret'.rules) = StoredRules(schedule)
    ]_vars

\* the part of C27 about when the store is read
C27_ReadsExactlyWhenOlderThanFive ==
    [][CallStep("get_schedule_rules")
       => /\ ret'.read <=> ~(flow.filled /\ now - flow.schedule_cache_time <= 5)
          /\ ~ret'.read => ret'.rules = flow.schedule_cache /\ flow' = flow
          /\ ret'.read => flow'.schedule_cache_time = now
          /\ ret'.rules = flow'.schedule_cache
    ]_vars

\* C29: every successful create_reservation adds one new record under an id
\* that no stored booking has and replaces no stored booking, so each
\* successful create raises the number of stored bookings by one, also when
\* the same user makes two reservations within the same clock second.
C29_CreateNeverReplaces ==
    [][(CallStep("create") /\ ret'.outcome = "ok")
       => /\ ret'.rec.id \notin DOMAIN store
          /\ \A i \in DOMAIN store : i \in DOMAIN store' /\ store'[i] = store[i]
          /\ Cardinality(DOMAIN store') = Cardinality(DOMAIN store) + 1
    ]_vars

====
